---- MODULE Spec2Model ----
(***************************************************************************)
(* A model of the inversebias backend: the storage gateway                 *)
(* (inversebias/data/db.py), the pipeline stages (inversebias/ml.py,       *)
(* inversebias/scrape.py), the group-mode helper (inversebias/data/utils)  *)
(* the orchestrator (inversebias/pipeline.py), the read API                *)
(* (inversebias/api.py) and the loading of the configuration               *)
(* (inversebias/config/settings.py).                                       *)
(*                                                                         *)
(* A data frame is a sequence of records (its rows, in frame order).  A    *)
(* missing cell (NaN) of a text column is the string NaN; a count cell is  *)
(* a sequence of length at most one, <<>> being NaN.  Schema validation    *)
(* by pandera's check_types is outside the model.                          *)
(***************************************************************************)
EXTENDS Integers, Sequences, FiniteSets, TLC

VARIABLES
    tables,      \* storage: table name -> [exists, rows]
    pc,          \* position of the running pipeline / operation
    upload,      \* the upload flag of the current today_pipeline call
    title,       \* value returned by build_today
    subject,     \* value returned by filter_subjects_of_interest
    sentiment,   \* value returned by infer_sentiment
    bias,        \* value returned by build_inverse_bias
    calls,       \* the stage calls made by the current today_pipeline call
    todo,        \* infer_sentiment: the rows left after remove_already_inferred_sentiment
    l,           \* infer_sentiment: the list of parsed classifier answers
    asked,       \* history: urls sent to the classifier in the current run
    result,      \* value returned by today_pipeline
    killed,      \* history: the batch and the answered urls of a run killed in the inference loop
    previous,    \* history: the inverse_bias table as it was when the current run began
    runs,        \* the number of today_pipeline calls begun so far
    op,          \* history: the last direct table_upload call (batch, storage before)
    status,      \* the status of the classifier's last response in the current run (0: none yet)
    unextracted, \* history: urls whose answers gave no record in a finished inference loop, not staged since
    ret,         \* the outcome of the last direct get_table or GET /articles call
    cls,         \* the class attributes of InverseBiasEngine and the objects allocated
    ctor,        \* the position of every caller of InverseBiasEngine()
    boot,        \* the import of inversebias.config.settings at process start
    replacing,   \* the position of a call of sql_replace_df taken statement by statement
    passed       \* history: the urls whose record passed the cleanup in the run that staged it

vars == <<tables, pc, upload, title, subject, sentiment, bias, calls, todo, l,
          asked, result, killed, previous, runs, op, status, unextracted, ret, cls, ctor,
          boot, replacing, passed>>

\* the state of the gateway calls made outside the pipeline, and of the start
direct == <<ret, cls, ctor, boot, replacing>>

(***************************************************************************)
(* Bounds of the model.                                                    *)
(***************************************************************************)
AggNumUrls == 3
AggMaxRows == 3
MaxBatch == 2
UploadNumUrls == 2
UploadMaxBatch == 2
MaxRuns == 2
CleanMaxRows == 3
FilterMaxBatch == 1
FilterMaxTitle == 3
ApiMaxRows == 3
ApiMaxOffset == 2
MaxConstructions == 4
TableMaxBatch == 1
TitleMaxLen == 4
ReplaceMaxRows == 2

(***************************************************************************)
(* Generic frame helpers.                                                  *)
(***************************************************************************)
Range(s) == {s[k] : k \in DOMAIN s}

\* the rows of s at the positions that satisfy Keep, in frame order
SelectIdx(s, Keep(_)) ==
    LET F[k \in 0..Len(s)] ==
            IF k = 0 THEN <<>>
            ELSE IF Keep(k) THEN Append(F[k-1], s[k]) ELSE F[k-1]
    IN  F[Len(s)]

\* the frame of Op(row) for the rows of s, in frame order
Map(s, Op(_)) ==
    LET F[k \in 0..Len(s)] ==
            IF k = 0 THEN <<>> ELSE Append(F[k-1], Op(s[k]))
    IN  F[Len(s)]

SeqsUpTo(S, n) == UNION {[1..k -> S] : k \in 0..n}

NaN == "NaN"
NA == "N/A"

\* no deduplication at all
drop_duplicates_keep_all(df) == df

\* DataFrame.drop_duplicates(subset=["url"], keep="first")
drop_duplicates_first(df) ==
    SelectIdx(df, LAMBDA k : \A j \in 1..(k-1) : df[j].url # df[k].url)

(***************************************************************************)
(* Storage gateway (inversebias/data/db.py).  The storage is a function    *)
(* from table names to [exists, rows]; every gateway call of the pipeline  *)
(* is sequential, so a call is one step.                                   *)
(***************************************************************************)
TableNames == {"title", "subject", "unprocessed_sentiment", "sentiment", "inverse_bias"}

MissingTable == [exists |-> FALSE, rows |-> <<>>]

NoTables == [t \in TableNames |-> MissingTable]

table_exists(T, table_name) == T[table_name].exists

\* get_table on an existing table: SELECT * FROM table_name
get_table(T, table_name) == T[table_name].rows

Urls(df) == {df[k].url : k \in DOMAIN df}

\* the rows written after the rows the table holds, nothing dropped
sql_replace_df_keeping(T, df, table_name) ==
    [T EXCEPT ![table_name] = [exists |-> TRUE, rows |-> T[table_name].rows \o df]]

\* DROP TABLE IF EXISTS, then to_sql(if_exists="replace"), then ADD PRIMARY KEY
sql_replace_df(T, df, table_name) ==
    [T EXCEPT ![table_name] = [exists |-> TRUE, rows |-> df]]

\* to_sql(if_exists="append")
sql_append_df(T, df, table_name) ==
    [T EXCEPT ![table_name] = [exists |-> TRUE, rows |-> T[table_name].rows \o df]]

\* DataFrame.drop_duplicates(subset=primary_key), primary_key = "url"
drop_duplicates_subset(df) == drop_duplicates_first(df)

\* no row is filtered out
NotInTableKeepAll(df, table) == df

\* df.loc[~df[primary_key].isin(table[primary_key])]
NotInTable(df, table) ==
    SelectIdx(df, LAMBDA k : df[k].url \notin Urls(table))

\* the batch written over the table
table_upload_overwrite(T, df, table_name) ==
    sql_replace_df(T, drop_duplicates_subset(df), table_name)

table_upload(T, df, table_name) ==
    IF table_exists(T, table_name)
    THEN LET table == get_table(T, table_name)
             new   == NotInTable(df, table)
         IN  IF new = <<>> THEN T
             ELSE sql_append_df(T, drop_duplicates_subset(new), table_name)
    ELSE sql_replace_df(T, drop_duplicates_subset(df), table_name)

(***************************************************************************)
(* Bias aggregation (inversebias/data/utils.py, inversebias/ml.py).        *)
(***************************************************************************)
BiasThresholdNum == 2
BiasThresholdDen == 3

\* the order pandas sorts the sentiment labels in (Series.mode sorts its result)
SortedLabels == <<"negative", "neutral", "positive">>

GroupOf(r) == <<r.source, r.subject>>

Groups(df) == {GroupOf(df[k]) : k \in DOMAIN df}

CountIn(df, g, s) ==
    Cardinality({k \in DOMAIN df : GroupOf(df[k]) = g /\ df[k].sentiment = s})

\* the plain mode, without the confidence floor
mode_func_no_floor(df, g) ==
    LET n(s)   == CountIn(df, g, s)
        most   == CHOOSE m \in {n(SortedLabels[q]) : q \in DOMAIN SortedLabels} :
                      \A q \in DOMAIN SortedLabels : n(SortedLabels[q]) <= m
        first  == CHOOSE q \in DOMAIN SortedLabels :
                      /\ n(SortedLabels[q]) = most
                      /\ \A p \in 1..(q-1) : n(SortedLabels[p]) # most
    IN  SortedLabels[first]

\* the floor applied with <= : a share equal to the threshold gives N/A
mode_func_floor_inclusive(df, g) ==
    LET n(s)   == CountIn(df, g, s)
        total  == Cardinality({k \in DOMAIN df : GroupOf(df[k]) = g})
        most   == CHOOSE m \in {n(SortedLabels[q]) : q \in DOMAIN SortedLabels} :
                      \A q \in DOMAIN SortedLabels : n(SortedLabels[q]) <= m
    IN  IF most * BiasThresholdDen <= BiasThresholdNum * total THEN NA
        ELSE mode_func_no_floor(df, g)

\* mode_func applied to the sentiment column of group g of df
mode_func(df, g) ==
    LET n(s)   == CountIn(df, g, s)
        total  == Cardinality({k \in DOMAIN df : GroupOf(df[k]) = g})
        most   == CHOOSE m \in {n(SortedLabels[q]) : q \in DOMAIN SortedLabels} :
                      \A q \in DOMAIN SortedLabels : n(SortedLabels[q]) <= m
        first  == CHOOSE q \in DOMAIN SortedLabels :
                      /\ n(SortedLabels[q]) = most
                      /\ \A p \in 1..(q-1) : n(SortedLabels[p]) # most
    IN  IF total = 0 THEN NA
        ELSE IF most * BiasThresholdDen < BiasThresholdNum * total THEN NA
        ELSE SortedLabels[first]

\* df.groupby(group_cols)[value_col].agg(mode_func): one label per group of df
groupby_mode(df) == [g \in Groups(df) |-> mode_func(df, g)]

IsBinary(r) == r.sentiment \in {"positive", "negative"}

InverseMap(b) ==
    CASE b = "positive" -> "negative"
      [] b = "negative" -> "positive"
      [] b = NA -> NA
      [] OTHER -> NaN

\* the counts taken over the rows whose sentiment is the inverse bias only
get_bias_stats_inverse_only(df) ==
    LET binary  == SelectIdx(df, LAMBDA k : IsBinary(df[k])
                                            /\ df[k].sentiment = df[k].inverse_bias)
        columns == {binary[k].sentiment : k \in DOMAIN binary}
        cell(g, s) ==
            IF s \notin columns THEN <<0>>
            ELSE IF CountIn(binary, g, s) = 0 THEN <<>>
            ELSE <<CountIn(binary, g, s)>>
    IN  [g \in Groups(binary) |->
            [positive |-> cell(g, "positive"), negative |-> cell(g, "negative")]]

\* get_bias_stats: the pivot of the positive/negative counts per group.  A
\* column exists when its label occurs in some row; a cell of an existing
\* column is NaN (<<>>) for a group without that label; a column that does
\* not exist is assigned 0.
get_bias_stats(df) ==
    LET binary  == SelectIdx(df, LAMBDA k : IsBinary(df[k]))
        columns == {binary[k].sentiment : k \in DOMAIN binary}
        cell(g, s) ==
            IF s \notin columns THEN <<0>>
            ELSE IF CountIn(binary, g, s) = 0 THEN <<>>
            ELSE <<CountIn(binary, g, s)>>
    IN  [g \in Groups(binary) |->
            [positive |-> cell(g, "positive"), negative |-> cell(g, "negative")]]

\* lines 164-189 of build_inverse_bias: the frame it returns for a stored
\* sentiment table
build_inverse_bias(stored) ==
    LET dedup   == drop_duplicates_first(stored \o stored)
        binary  == SelectIdx(dedup, LAMBDA k : IsBinary(dedup[k]))
        df_bias == groupby_mode(binary)
        label(r) == IF GroupOf(r) \in DOMAIN df_bias THEN df_bias[GroupOf(r)] ELSE NaN
        withBias == Map(dedup, LAMBDA r :
                        r @@ [bias |-> label(r), inverse_bias |-> InverseMap(label(r))])
        stats   == get_bias_stats(withBias)
        cnt(r, c) == IF GroupOf(r) \in DOMAIN stats THEN stats[GroupOf(r)][c] ELSE <<>>
        merged  == Map(withBias, LAMBDA r :
                        r @@ [negative |-> cnt(r, "negative"),
                              positive |-> cnt(r, "positive")])
        dropna  == SelectIdx(merged, LAMBDA k :
                        merged[k].positive # <<>> /\ merged[k].negative # <<>>)
        asint   == Map(dropna, LAMBDA r :
                        [r EXCEPT !.negative = r.negative[1], !.positive = r.positive[1]])
    IN  drop_duplicates_first(asint)

(***************************************************************************)
(* Text.  A string the code takes apart (a title, a subject) is a sequence *)
(* of characters; NYT stands for the literal " - The New York Times".      *)
(***************************************************************************)
NYT == "~nyt~"

LowerChar(c) == CASE c = "B" -> "b" [] c = "C" -> "c" [] OTHER -> c

\* str.lower()
Lower(t) == [k \in DOMAIN t |-> LowerChar(t[k])]

\* str.contains(a): a occurs in t as a substring
Contains(t, a) ==
    \E k \in 0..(Len(t) - Len(a)) : SubSeq(t, k + 1, k + Len(a)) = a

\* str.split(sep) for a one-character separator
Split(t, sep) ==
    LET F[k \in 0..Len(t)] ==
            IF k = 0 THEN << <<>> >>
            ELSE IF t[k] = sep THEN Append(F[k-1], <<>>)
            ELSE [F[k-1] EXCEPT ![Len(F[k-1])] = Append(@, t[k])]
    IN  F[Len(t)]

\* str.strip()
Strip(t) ==
    LET solid == {k \in DOMAIN t : t[k] # " "}
    IN  IF solid = {} THEN <<>>
        ELSE SubSeq(t, CHOOSE a \in solid : \A b \in solid : a <= b,
                       CHOOSE a \in solid : \A b \in solid : b <= a)

(***************************************************************************)
(* Subject filter (ml.filter_subjects_of_interest).                        *)
(***************************************************************************)
SUBJECTS == << <<"a", " ", "b">>, <<"c">> >>

\* the frames of all the aliases are gathered
AliasLoopUnion(df, aliases) ==
    SelectIdx(df, LAMBDA q : \E k \in 1..Len(aliases) :
                                 Contains(Lower(df[q].title), aliases[k]))

\* the inner loop: every alias assigns subject_df anew, so the frame left
\* after the loop is the one of the last alias
AliasLoop(df, aliases) ==
    LET F[k \in 1..Len(aliases)] ==
            SelectIdx(df, LAMBDA q : Contains(Lower(df[q].title), aliases[k]))
    IN  F[Len(aliases)]

filter_subjects_of_interest(df) ==
    LET F[k \in 0..Len(SUBJECTS)] ==
            IF k = 0 THEN <<>>
            ELSE LET subject_df == AliasLoop(df, Split(SUBJECTS[k], " "))
                 IN  F[k-1] \o Map(subject_df, LAMBDA r : r @@ [subject |-> SUBJECTS[k]])
    IN  F[Len(SUBJECTS)]

(***************************************************************************)
(* Classifier answers (ml.parse_markdown_table).  An answer is the list of *)
(* three-cell matches that re.findall returns for it.  A parsed frame is   *)
(* [cols, rows]: pd.DataFrame() has no columns at all.                     *)
(***************************************************************************)
StripCell(c) == CASE c = " neutral " -> "neutral" [] OTHER -> c

NoColumns == [cols |-> FALSE, rows |-> <<>>]

\* the first row of every url is kept
drop_duplicates_coalescing(df) == drop_duplicates_first(df)

\* the last row of every url is kept
drop_duplicates_last(df) ==
    SelectIdx(df, LAMBDA k : \A j \in (k+1)..Len(df) : df[j].url # df[k].url)

\* DataFrame.drop_duplicates(subset=["url"], keep=False)
drop_duplicates_none(df) ==
    SelectIdx(df, LAMBDA k : \A j \in DOMAIN df : j # k => df[j].url # df[k].url)

parse_markdown_table(matches, scraped_content) ==
    LET data_rows == SubSeq(matches, 3, Len(matches))
        df == Map(data_rows, LAMBDA row :
                  [sentiment |-> StripCell(row[2]),
                   source |-> scraped_content.source,
                   subject |-> scraped_content.subject,
                   explanation |-> StripCell(row[3]),
                   url |-> scraped_content.url,
                   publication_date |-> scraped_content.publication_date,
                   language |-> scraped_content.language,
                   title |-> scraped_content.title])
    IN  IF data_rows = <<>> THEN NoColumns
        ELSE [cols |-> TRUE, rows |-> drop_duplicates_none(df)]

\* pd.concat(l)
concat(frames) ==
    LET F[k \in 0..Len(frames)] ==
            IF k = 0 THEN <<>> ELSE F[k-1] \o frames[k].rows
    IN  [cols |-> \E k \in DOMAIN frames : frames[k].cols, rows |-> F[Len(frames)]]

(***************************************************************************)
(* Sentiment cleanup (ml.process_sentiment, called with upload=False).     *)
(***************************************************************************)
SentimentCategories == {"positive", "neutral", "negative"}

LowerLabel(x) ==
    CASE x = "Positive" -> "positive"
      [] x = "NEGATIVE" -> "negative"
      [] OTHER -> x

\* len(x): the number of characters, NYT standing for its 21 characters
Length(t) ==
    LET F[k \in 0..Len(t)] ==
            IF k = 0 THEN 0 ELSE F[k-1] + (IF t[k] = NYT THEN 21 ELSE 1)
    IN  F[Len(t)]

\* the last segment of maximal length
LongestLast(segments) ==
    segments[CHOOSE k \in DOMAIN segments :
                 /\ \A j \in DOMAIN segments : Length(segments[j]) <= Length(segments[k])
                 /\ \A j \in (k+1)..Len(segments) : Length(segments[j]) < Length(segments[k])]

\* x[np.argmax(lengths)]: the first segment of maximal length
Longest(segments) ==
    segments[CHOOSE k \in DOMAIN segments :
                 /\ \A j \in DOMAIN segments : Length(segments[j]) <= Length(segments[k])
                 /\ \A j \in 1..(k-1) : Length(segments[j]) < Length(segments[k])]

\* str.split(" - The New York Times").str[0]
BeforeNYT(t) == Split(t, NYT)[1]

\* the surviving rows come out in the reverse of the input order
process_sentiment_reversed(data) ==
    LET notna   == SelectIdx(data, LAMBDA k : data[k].url # NaN)
        unique  == drop_duplicates_none(notna)
        lowered == Map(unique, LAMBDA r : [r EXCEPT !.sentiment = LowerLabel(@)])
        valid   == SelectIdx(lowered, LAMBDA k : lowered[k].sentiment \in SentimentCategories)
        split   == Map(valid, LAMBDA r : [r EXCEPT !.title = Longest(Split(@, "|"))])
        nyt     == Map(split, LAMBDA r :
                       IF r.source = "nytimes" THEN [r EXCEPT !.title = BeforeNYT(@)] ELSE r)
        trimmed == Map(nyt, LAMBDA r : [r EXCEPT !.title = Strip(@)])
        english == SelectIdx(trimmed, LAMBDA k : trimmed[k].language = "en")
    IN  [k \in 1..Len(english) |-> english[Len(english) + 1 - k]]

\* ml.process_sentiment (lines 105-122)
process_sentiment(data) ==
    LET notna   == SelectIdx(data, LAMBDA k : data[k].url # NaN)
        unique  == drop_duplicates_none(notna)
        lowered == Map(unique, LAMBDA r : [r EXCEPT !.sentiment = LowerLabel(@)])
        valid   == SelectIdx(lowered, LAMBDA k : lowered[k].sentiment \in SentimentCategories)
        split   == Map(valid, LAMBDA r : [r EXCEPT !.title = Longest(Split(@, "|"))])
        nyt     == Map(split, LAMBDA r :
                       IF r.source = "nytimes" THEN [r EXCEPT !.title = BeforeNYT(@)] ELSE r)
        trimmed == Map(nyt, LAMBDA r : [r EXCEPT !.title = Strip(@)])
    IN  SelectIdx(trimmed, LAMBDA k : trimmed[k].language = "en")

\* nothing is subtracted
remove_already_inferred_sentiment_nothing(T, subject_df) == subject_df

\* ml.remove_already_inferred_sentiment
remove_already_inferred_sentiment(T, subject_df) ==
    LET subject_db == IF table_exists(T, "unprocessed_sentiment")
                      THEN get_table(T, "unprocessed_sentiment") ELSE <<>>
    IN  IF Len(subject_db) = 0 THEN subject_df
        ELSE SelectIdx(subject_df, LAMBDA k : subject_df[k].url \notin Urls(subject_db))

(***************************************************************************)
(* Inputs of the pipeline model: what the scrape can return (scrape.py     *)
(* build_today) and what the classifier can answer.                        *)
(***************************************************************************)
Article(u, src, t) ==
    [url |-> u, source |-> src, title |-> t, language |-> "en", publication_date |-> "d"]

\* u1 is scraped with two different titles; the second matches both subjects
ScrapePool ==
    { Article("u1", "A", <<"B">>),
      Article("u1", "A", <<"b", "c">>),
      Article("u2", "A", <<"C", "|", "x">>) }

Batches == SeqsUpTo(ScrapePool, MaxBatch)

Header == <<"subject", "sentiment", "explanation">>
Separator == <<"---", "---", "---">>

Answers ==
    { <<Header, Separator, <<"s", "Positive", "why">> >>,
      <<Header, Separator, <<"s", "negative", "why">> >>,
      <<>> }

NoKill == [state |-> "none", batch |-> <<>>, answered |-> {}]
NoOp == [batch |-> <<>>, before |-> MissingTable]
NoRet == [call |-> "none"]

\* the callers of InverseBiasEngine() in the process
Callers == {"c1", "c2", "c3"}

\* InverseBiasEngine before any construction: _instance = None and _engine = None
\* (0 stands for None); no object allocated, create_engine never called
NoClass == [instance |-> 0, engine |-> 0, objects |-> 0, engines |-> 0, calls |-> 0,
            returned |-> {}]

NoCallers == [c \in Callers |-> [pc |-> "idle", got |-> 0, engine |-> 0]]

\* no call of sql_replace_df is under way
NoReplace == [pc |-> "idle", df |-> <<>>, before |-> MissingTable]

\* the names inversebias.config.settings defines (lines 33, 81, 135-141)
SettingsNames == {"_yaml_config", "NEWS_SOURCES", "settings", "SOURCE_TO_URL", "SUBJECTS",
                  "BIAS_THRESHOLD"}

\* the module imported from a valid config.yaml
Booted == [file |-> "valid", state |-> "ready", raised |-> "none", names |-> SettingsNames]

(***************************************************************************)
(* The pipeline (pipeline.today_pipeline) and its stages.  upload_to_table *)
(* wraps build_today, filter_subjects_of_interest and infer_sentiment: it  *)
(* uploads the returned frame when the call has upload=True.               *)
(***************************************************************************)
\* the decorator's wrapper, after the wrapped function returned df
upload_to_table(T, df, table_name, flag) ==
    IF flag THEN table_upload(T, df, table_name) ELSE T

\* the aggregation called with the frame of the subject filter
StageArgSkipping(fn) ==
    CASE fn = "filter_subjects_of_interest" -> title
      [] fn = "infer_sentiment" -> subject
      [] fn = "build_inverse_bias" -> subject
      [] OTHER -> <<>>

\* lines 10-13 of today_pipeline: the frame each stage is called with
StageArg(fn) ==
    CASE fn = "filter_subjects_of_interest" -> title
      [] fn = "infer_sentiment" -> subject
      [] fn = "build_inverse_bias" -> sentiment
      [] OTHER -> <<>>

Call(fn) == [fn |-> fn, upload |-> upload, arg |-> StageArg(fn)]

Running == {"scraped", "filtered", "inferring", "inferred"}

\* today_pipeline(upload=u) begins; build_today returns batch
BuildToday(batch, u) ==
    /\ pc = "idle"
    /\ runs < MaxRuns
    /\ runs' = runs + 1
    /\ upload' = u
    /\ title' = batch
    /\ tables' = upload_to_table(tables, batch, "title", u)
    /\ calls' = << [fn |-> "build_today", upload |-> u, arg |-> <<>>] >>
    /\ killed' = IF killed.state = "pending" /\ killed.batch = batch
                 THEN [killed EXCEPT !.state = "restarted"] ELSE NoKill
    /\ previous' = tables["inverse_bias"]
    /\ UNCHANGED <<subject, sentiment, bias, result, todo, l, asked, op, status,
                   unextracted, direct, passed>>
    /\ pc' = "scraped"

FilterSubjects ==
    /\ pc = "scraped"
    /\ LET df == filter_subjects_of_interest(StageArg("filter_subjects_of_interest"))
       IN  /\ subject' = df
           /\ tables' = upload_to_table(tables, df, "subject", upload)
    /\ calls' = Append(calls, Call("filter_subjects_of_interest"))
    /\ pc' = "filtered"
    /\ UNCHANGED <<upload, title, sentiment, bias, todo, l, asked, result, killed, previous,
                   runs, op, status, unextracted, direct, passed>>

\* infer_sentiment up to its loop (lines 260-264)
InferStart ==
    /\ pc = "filtered"
    /\ calls' = Append(calls, Call("infer_sentiment"))
    /\ LET rest == remove_already_inferred_sentiment(tables, StageArg("infer_sentiment"))
       IN  /\ todo' = rest
           /\ IF Len(rest) = 0
              THEN /\ sentiment' = <<>>
                   /\ tables' = upload_to_table(tables, <<>>, "sentiment", upload)
                   /\ pc' = "inferred"
              ELSE /\ pc' = "inferring"
                   /\ UNCHANGED <<sentiment, tables>>
    /\ UNCHANGED <<upload, title, subject, bias, l, asked, result, killed, previous, runs, op,
                   status, unextracted, direct, passed>>

\* one turn of the loop (lines 265-276): the classifier answers the next row
InferAsk(answer) ==
    /\ pc = "inferring"
    /\ Len(l) < Len(todo)
    /\ LET row == todo[Len(l) + 1]
       IN  /\ asked' = asked \cup {row.url}
           /\ l' = Append(l, parse_markdown_table(answer, row))
    /\ status' = 200
    /\ UNCHANGED <<tables, pc, upload, title, subject, sentiment, bias, calls, todo,
                   result, killed, previous, runs, op, unextracted, direct, passed>>

\* the failed call is passed over and the loop goes on
InferAskFailsSkipped ==
    /\ pc = "inferring"
    /\ Len(l) < Len(todo)
    /\ asked' = asked \cup {todo[Len(l) + 1].url}
    /\ status' = 500
    /\ l' = Append(l, NoColumns)
    /\ UNCHANGED <<tables, pc, upload, title, subject, sentiment, bias, calls, todo,
                   result, killed, previous, runs, op, unextracted, direct, passed>>

\* the classifier answers with a status other than 200: ask raises
InferAskFails ==
    /\ pc = "inferring"
    /\ Len(l) < Len(todo)
    /\ asked' = asked \cup {todo[Len(l) + 1].url}
    /\ status' = 500
    /\ pc' = "raised"
    /\ UNCHANGED <<tables, upload, title, subject, sentiment, bias, calls, todo, l,
                   result, killed, previous, runs, op, unextracted, direct, passed>>

\* the rows that were sent to the classifier are staged, not the parsed answers
InferFinishStagingInput ==
    /\ pc = "inferring"
    /\ Len(l) = Len(todo)
    /\ LET df == concat(l)
       IN  IF ~df.cols
           THEN /\ pc' = "raised"
                /\ UNCHANGED <<tables, sentiment>>
           ELSE LET staged == table_upload(tables, todo, "unprocessed_sentiment")
                    processed_sentiment == process_sentiment(df.rows)
                IN  /\ sentiment' = processed_sentiment
                    /\ tables' = upload_to_table(staged, processed_sentiment,
                                                 "sentiment", upload)
                    /\ pc' = "inferred"
    /\ unextracted' = (unextracted \cup (Urls(todo) \ Urls(concat(l).rows)))
                          \ Urls(tables'["unprocessed_sentiment"].rows)
    /\ passed' = passed \cup (IF pc' = "inferred" THEN Urls(sentiment') ELSE {})
    /\ UNCHANGED <<upload, title, subject, bias, calls, todo, l, asked, result,
                   killed, previous, runs, op, status, direct>>

\* after the loop (lines 277-285), then the decorator's upload
InferFinish ==
    /\ pc = "inferring"
    /\ Len(l) = Len(todo)
    /\ LET df == concat(l)
       IN  IF ~df.cols
           THEN \* table_upload reads df["url"]: KeyError
                /\ pc' = "raised"
                /\ UNCHANGED <<tables, sentiment>>
           ELSE LET staged == table_upload(tables, df.rows, "unprocessed_sentiment")
                    processed_sentiment == process_sentiment(df.rows)
                IN  /\ sentiment' = processed_sentiment
                    /\ tables' = upload_to_table(staged, processed_sentiment,
                                                 "sentiment", upload)
                    /\ pc' = "inferred"
    /\ unextracted' = (unextracted \cup (Urls(todo) \ Urls(concat(l).rows)))
                          \ Urls(tables'["unprocessed_sentiment"].rows)
    /\ passed' = passed \cup (IF pc' = "inferred" THEN Urls(sentiment') ELSE {})
    /\ UNCHANGED <<upload, title, subject, bias, calls, todo, l, asked, result,
                   killed, previous, runs, op, status, direct>>

\* the aggregation of the frame the stage is called with
BuildInverseBiasFromArgument ==
    /\ pc = "inferred"
    /\ calls' = Append(calls, Call("build_inverse_bias"))
    /\ LET df_bias == build_inverse_bias(StageArg("build_inverse_bias"))
       IN  /\ bias' = df_bias
           /\ result' = df_bias
           /\ tables' = IF upload THEN sql_replace_df(tables, df_bias, "inverse_bias")
                        ELSE tables
           /\ pc' = "done"
    /\ UNCHANGED <<upload, title, subject, sentiment, todo, l, asked, killed, previous, runs, op,
                   status, unextracted, direct, passed>>

\* build_inverse_bias (lines 164-192) and the return of today_pipeline
BuildInverseBias ==
    /\ pc = "inferred"
    /\ calls' = Append(calls, Call("build_inverse_bias"))
    /\ IF ~table_exists(tables, "sentiment")
       THEN \* get_table raises ValueError
            /\ pc' = "raised"
            /\ UNCHANGED <<tables, bias, result>>
       ELSE LET df_bias == build_inverse_bias(get_table(tables, "sentiment"))
            IN  /\ bias' = df_bias
                /\ result' = df_bias
                /\ tables' = IF upload THEN sql_replace_df(tables, df_bias, "inverse_bias")
                             ELSE tables
                /\ pc' = "done"
    /\ UNCHANGED <<upload, title, subject, sentiment, todo, l, asked, killed, previous, runs, op,
                   status, unextracted, direct, passed>>

\* the locals of a run that is over
Forget ==
    /\ upload' = FALSE
    /\ title' = <<>> /\ subject' = <<>> /\ sentiment' = <<>> /\ bias' = <<>>
    /\ result' = <<>> /\ calls' = <<>> /\ todo' = <<>> /\ l' = <<>> /\ asked' = {}
    /\ status' = 0

\* the process is killed in the middle of a run
Kill ==
    /\ pc \in Running
    /\ killed' = IF pc = "inferring"
                 THEN [state |-> "pending", batch |-> title,
                       answered |-> {todo[k].url : k \in 1..Len(l)}]
                 ELSE NoKill
    /\ pc' = "idle"
    /\ Forget
    /\ previous' = MissingTable
    /\ UNCHANGED <<tables, runs, op, unextracted, direct, passed>>

\* the run is over (today_pipeline returned or raised): the process ends
Exit ==
    /\ pc \in {"done", "raised"}
    /\ pc' = "idle"
    /\ killed' = NoKill
    /\ Forget
    /\ previous' = MissingTable
    /\ UNCHANGED <<tables, runs, op, unextracted, direct, passed>>

Init ==
    /\ tables = NoTables
    /\ pc = "idle"
    /\ upload = FALSE
    /\ title = <<>> /\ subject = <<>> /\ sentiment = <<>> /\ bias = <<>>
    /\ result = <<>>
    /\ calls = <<>> /\ todo = <<>> /\ l = <<>> /\ asked = {}
    /\ killed = NoKill
    /\ previous = MissingTable
    /\ runs = 0
    /\ op = NoOp
    /\ status = 0
    /\ unextracted = {}
    /\ ret = NoRet
    /\ cls = NoClass
    /\ ctor = NoCallers
    /\ boot = Booted
    /\ replacing = NoReplace
    /\ passed = {}

Next ==
    \/ \E batch \in Batches, u \in BOOLEAN : BuildToday(batch, u)
    \/ FilterSubjects
    \/ InferStart
    \/ \E answer \in Answers : InferAsk(answer)
    \/ InferAskFails
    \/ InferFinish
    \/ BuildInverseBias
    \/ Kill
    \/ Exit

Spec == Init /\ [][Next]_vars

(***************************************************************************)
(* The aggregation on its own: build_inverse_bias reads whatever the       *)
(* sentiment table holds (the frame it is called with is not used), so it  *)
(* is run here on every table of at most AggMaxRows rows over AggNumUrls   *)
(* urls, two sources and the three sentiment labels; rows may repeat a     *)
(* url.  Urls are only compared for equality, so the tables are taken with *)
(* their urls numbered in the order of first appearance.                   *)
(***************************************************************************)
UrlNames == <<"u1", "u2", "u3", "u4", "u5", "u6">>

AggSources == {"A", "B"}

AggSubject == SUBJECTS[2]

FirstAppearance(p) ==
    \A k \in DOMAIN p : p[k] = 1 \/ \E j \in 1..(k-1) : p[j] = p[k] - 1

AggTable(p, a) ==
    [k \in DOMAIN p |->
        [url |-> UrlNames[p[k]], source |-> a[k][1], subject |-> AggSubject,
         sentiment |-> a[k][2]]]

InitAgg ==
    /\ \E n \in 0..AggMaxRows :
         \E p \in [1..n -> 1..AggNumUrls] :
           /\ FirstAppearance(p)
           /\ \E a \in [1..n -> AggSources \X SentimentCategories] :
                tables = [NoTables EXCEPT
                             !["sentiment"] = [exists |-> TRUE, rows |-> AggTable(p, a)]]
    /\ pc = "inferred"
    /\ upload = FALSE
    /\ title = <<>> /\ subject = <<>> /\ sentiment = <<>> /\ bias = <<>>
    /\ result = <<>>
    /\ calls = <<>> /\ todo = <<>> /\ l = <<>> /\ asked = {}
    /\ killed = NoKill
    /\ previous = MissingTable
    /\ runs = 0
    /\ op = NoOp
    /\ status = 0
    /\ unextracted = {}
    /\ ret = NoRet
    /\ cls = NoClass
    /\ ctor = NoCallers
    /\ boot = Booted
    /\ replacing = NoReplace
    /\ passed = {}

NextAgg == BuildInverseBias

SpecAgg == InitAgg /\ [][NextAgg]_vars

(***************************************************************************)
(* What the aggregation is to compute, stated on the stored table itself:  *)
(* the first-seen row of every url, and the counts per (source, subject).  *)
(***************************************************************************)
Stored == tables["sentiment"].rows

FirstSeenAt(u) ==
    CHOOSE k \in DOMAIN Stored :
        Stored[k].url = u /\ \A j \in 1..(k-1) : Stored[j].url # u

FirstSeen == {Stored[FirstSeenAt(u)] : u \in Urls(Stored)}

NumIn(g, s) == Cardinality({r \in FirstSeen : GroupOf(r) = g /\ r.sentiment = s})

Classified(g) == NumIn(g, "positive") + NumIn(g, "negative")

Majority(g) ==
    IF NumIn(g, "positive") >= NumIn(g, "negative")
    THEN NumIn(g, "positive") ELSE NumIn(g, "negative")

BelowFloor(g) == Majority(g) * BiasThresholdDen < BiasThresholdNum * Classified(g)

StoredGroups == {GroupOf(r) : r \in FirstSeen}

\* C1: a group with at least one positive or negative article whose majority
\* share is strictly below the threshold has bias N/A and inverse_bias N/A in
\* every output row (a tie of positive and negative included).
C1_BelowFloorIsNA ==
    pc = "done" =>
        \A g \in StoredGroups :
            (Classified(g) >= 1 /\ BelowFloor(g)) =>
                \A k \in DOMAIN bias :
                    GroupOf(bias[k]) = g =>
                        bias[k].bias = NA /\ bias[k].inverse_bias = NA

C1_Witness ==
    /\ pc = "done"
    /\ \E k \in DOMAIN bias :
          /\ NumIn(GroupOf(bias[k]), "positive") = NumIn(GroupOf(bias[k]), "negative")
          /\ NumIn(GroupOf(bias[k]), "positive") >= 1
          /\ bias[k].bias = NA

\* C2: a group whose majority share reaches the threshold (equality included)
\* has the majority sentiment as bias and its opposite as inverse_bias in every
\* output row of the group, neutral rows included.
C2_AtFloorIsMajority ==
    pc = "done" =>
        \A g \in StoredGroups :
            (Classified(g) >= 1 /\ ~BelowFloor(g)) =>
                \A k \in DOMAIN bias :
                    GroupOf(bias[k]) = g =>
                        IF NumIn(g, "positive") > NumIn(g, "negative")
                        THEN bias[k].bias = "positive" /\ bias[k].inverse_bias = "negative"
                        ELSE bias[k].bias = "negative" /\ bias[k].inverse_bias = "positive"

C2_Witness ==
    /\ pc = "done"
    /\ \E k \in DOMAIN bias :
          /\ NumIn(GroupOf(bias[k]), "positive") = 2
          /\ NumIn(GroupOf(bias[k]), "negative") = 1
          /\ bias[k].bias = "positive"
          /\ bias[k].sentiment = "negative"

\* C3: the positive and negative fields of every output row are the numbers of
\* first-seen rows of its group that are positive, respectively negative.
C3_CountsAreGroupTallies ==
    pc = "done" =>
        \A k \in DOMAIN bias :
            /\ bias[k].positive = NumIn(GroupOf(bias[k]), "positive")
            /\ bias[k].negative = NumIn(GroupOf(bias[k]), "negative")

C3_Witness ==
    /\ pc = "done"
    /\ \E k \in DOMAIN bias :
          /\ bias[k].positive = 2
          /\ bias[k].negative = 1
          /\ bias[k].sentiment # bias[k].inverse_bias

\* C4: when the table holds several rows with one url, only the first-seen row
\* takes part: the output has at most one row per url, that row is the
\* first-seen one, and the counts and the mode count every url once.
C4_FirstSeenOnly ==
    pc = "done" =>
        /\ \A j, k \in DOMAIN bias : bias[j].url = bias[k].url => j = k
        /\ \A k \in DOMAIN bias :
              LET first == Stored[FirstSeenAt(bias[k].url)]
                  g == GroupOf(bias[k])
              IN  /\ bias[k].source = first.source
                  /\ bias[k].sentiment = first.sentiment
                  /\ bias[k].positive + bias[k].negative =
                        Cardinality({u \in Urls(Stored) :
                            /\ GroupOf(Stored[FirstSeenAt(u)]) = g
                            /\ IsBinary(Stored[FirstSeenAt(u)])})
                  /\ (bias[k].bias = NA) <=> BelowFloor(g)

C4_Witness ==
    /\ pc = "done"
    /\ \E k \in DOMAIN bias, j \in DOMAIN Stored :
          /\ Stored[j].url = bias[k].url
          /\ j # FirstSeenAt(bias[k].url)
          /\ Stored[j].sentiment # bias[k].sentiment
          /\ IsBinary(Stored[j])

\* the classified articles of the group all have the sentiment s
OnlySentiment(g, s) == NumIn(g, s) >= 1 /\ Classified(g) = NumIn(g, s)

\* C23: a first-seen row of the stored table is in the output exactly when
\* its group has at least one positive or negative article; the rows of a
\* group whose classified articles all have one sentiment are in the output
\* with that sentiment as bias and the count 0 for the other sentiment.
C23_ClassifiedGroupsAppear ==
    pc = "done" =>
        \A r \in FirstSeen :
            /\ (\E k \in DOMAIN bias : bias[k].url = r.url) <=> Classified(GroupOf(r)) >= 1
            /\ OnlySentiment(GroupOf(r), "positive") =>
                   \E k \in DOMAIN bias : /\ bias[k].url = r.url
                                          /\ bias[k].bias = "positive"
                                          /\ bias[k].negative = 0
            /\ OnlySentiment(GroupOf(r), "negative") =>
                   \E k \in DOMAIN bias : /\ bias[k].url = r.url
                                          /\ bias[k].bias = "negative"
                                          /\ bias[k].positive = 0

(***************************************************************************)
(* table_upload on its own: any sequence of calls on one table, which is   *)
(* missing at first, with batches of at most UploadMaxBatch rows over      *)
(* UploadNumUrls urls; a url comes with two different contents.            *)
(***************************************************************************)
UploadRows ==
    {[url |-> UrlNames[k], title |-> t] : k \in 1..UploadNumUrls, t \in {<<"a">>, <<"b">>}}

UploadBatches == SeqsUpTo(UploadRows, UploadMaxBatch)

DirectUpload(batch) ==
    /\ op' = [batch |-> batch, before |-> tables["title"]]
    /\ tables' = table_upload(tables, batch, "title")
    /\ UNCHANGED <<pc, upload, title, subject, sentiment, bias, calls, todo, l, asked,
                   result, killed, previous, runs, status, unextracted, direct, passed>>

NextUpload == \E batch \in UploadBatches : DirectUpload(batch)

SpecUpload == Init /\ [][NextUpload]_vars

\* C5: after any sequence of table_upload calls no two rows of the table share
\* a primary-key value, and a call whose keys are all stored adds no row.
C5_UploadKeepsKeysUnique ==
    /\ \A j, k \in DOMAIN tables["title"].rows :
          tables["title"].rows[j].url = tables["title"].rows[k].url => j = k
    /\ Urls(op.batch) \subseteq Urls(op.before.rows) =>
          tables["title"].rows = op.before.rows

C5_Witness ==
    /\ Len(op.batch) = 2
    /\ op.batch[1].url = op.batch[2].url
    /\ op.batch[1] # op.batch[2]
    /\ Urls(op.batch) \subseteq Urls(op.before.rows)
    /\ Len(op.before.rows) = 2
    /\ tables["title"].rows = op.before.rows

(***************************************************************************)
(* Claims about the pipeline.                                              *)
(***************************************************************************)
AppendTables == {"title", "subject", "unprocessed_sentiment", "sentiment"}

IsPrefix(a, b) == Len(a) <= Len(b) /\ SubSeq(b, 1, Len(a)) = a

\* C6: no step changes or removes a stored row of the title, subject,
\* unprocessed_sentiment or sentiment table: the tables only grow.
C6_AppendOnly ==
    [][\A t \in AppendTables :
          /\ tables[t].exists => tables'[t].exists
          /\ IsPrefix(tables[t].rows, tables'[t].rows)]_vars

\* a second run scraped a stored url with another title and uploaded it
C6_Witness ==
    /\ pc = "scraped" /\ upload /\ runs = 2
    /\ Len(title) = 1
    /\ \E j \in DOMAIN tables["title"].rows :
          /\ tables["title"].rows[j].url = title[1].url
          /\ tables["title"].rows[j] # title[1]

\* C7: after build_inverse_bias completed with upload=True the inverse_bias
\* table holds exactly the rows of the returned frame.
C7_AggregateReplaced ==
    (pc = "done" /\ upload) =>
        tables["inverse_bias"] = [exists |-> TRUE, rows |-> bias]

\* the table held a row before the run that the returned frame does not have
C7_Witness ==
    /\ pc = "done" /\ upload
    /\ bias # <<>>
    /\ \E k \in DOMAIN previous.rows : previous.rows[k] \notin Range(bias)

\* C8: a run with upload=False leaves every persisted table as it was.
C8_DryRunLeavesStorage ==
    [][(pc' # "idle" /\ ~upload') => tables' = tables]_vars

StageOrder ==
    <<"build_today", "filter_subjects_of_interest", "infer_sentiment", "build_inverse_bias">>

\* C9: the stages are called once each, in the order scrape, subject filter,
\* inference, aggregation, each with the pipeline's upload flag and with the
\* frame the stage before it returned; the pipeline returns the aggregate.
C9_StagesInOrder ==
    /\ Len(calls) <= Len(StageOrder)
    /\ \A k \in DOMAIN calls : calls[k].fn = StageOrder[k] /\ calls[k].upload = upload
    /\ Len(calls) >= 2 => calls[2].arg = title
    /\ Len(calls) >= 3 => calls[3].arg = subject
    /\ Len(calls) >= 4 => calls[4].arg = sentiment
    /\ pc = "done" => Len(calls) = 4 /\ result = bias

C9_Witness ==
    /\ pc = "done"
    /\ Len(calls) = 4
    /\ sentiment # <<>>
    /\ Len(subject) > Len(sentiment)
    /\ result # <<>>

\* C10: a run restarted on the batch of a run that was killed in the inference
\* loop sends no url to the classifier that had been answered before the kill.
C10_NoReclassification ==
    killed.state = "restarted" => asked \cap killed.answered = {}

(***************************************************************************)
(* Claims about the inference stage.                                       *)
(***************************************************************************)
Staged == Urls(tables["unprocessed_sentiment"].rows)

\* the step that ends the inference loop with every row answered
LoopEnds == pc = "inferring" /\ pc' \in {"inferred", "raised"} /\ status' # 500

\* C11: when the classifier answers a row with a non-success status the stage
\* raises at once: the rows after it are not sent to the classifier, the
\* aggregation is not called, the pipeline returns nothing, and the only step
\* left is the end of the run, with the storage as it is.
C11_FailureAborts ==
    /\ [](status = 500 =>
            /\ pc = "raised"
            /\ Len(calls) = 3 /\ calls[3].fn = "infer_sentiment"
            /\ result = <<>> /\ bias = <<>>
            /\ Len(l) < Len(todo)
            /\ asked = {todo[k].url : k \in 1..(Len(l) + 1)})
    /\ [][status = 500 => (pc' = "idle" /\ tables' = tables)]_vars

C11_Witness ==
    /\ status = 500
    /\ Len(l) = 1
    /\ Len(todo) = 3
    /\ todo[3].url \notin asked

\* C12: infer_sentiment raises only when the classifier answered with a
\* non-success status; malformed answers never make it raise.
C12_MalformedNeverRaises ==
    (pc = "raised" /\ Len(calls) = 3) => status = 500

C14_StagedNeverAsked ==
    /\ [](pc = "inferring" =>
            /\ asked \cap Staged = {}
            /\ todo # <<>>
            /\ Range(todo) = {subject[k] : k \in {j \in DOMAIN subject :
                                                     subject[j].url \notin Staged}})
    /\ [][(pc = "filtered" /\ pc' # "idle") =>
            /\ Staged = {} => todo' = subject
            /\ Urls(subject) \subseteq Staged =>
                  (pc' = "inferred" /\ sentiment' = <<>> /\ asked' = {} /\ status' = 0)]_vars
    /\ [][LoopEnds => asked = Urls(todo)]_vars

C14_Witness ==
    /\ pc = "inferring"
    /\ Len(l) = Len(todo)
    /\ \E k \in DOMAIN subject : subject[k].url \in Staged
    /\ asked # {}

\* C24: once a run with upload=True has completed, every staged url whose
\* record passed the cleanup is stored in the sentiment table, whatever runs
\* (dry runs included) came before.
C24_StagedPassingIsStored ==
    (pc = "done" /\ upload) =>
        (passed \cap Staged) \subseteq Urls(tables["sentiment"].rows)

\* C25: the frame build_inverse_bias returns is made of the stored sentiment
\* table and not of the frame it is called with: every returned row is the
\* first-stored row of its url, and a record classified in a run with
\* upload=False that the table does not hold is not in the result.
C25_ResultFromStoredTable ==
    pc = "done" =>
        /\ \A k \in DOMAIN result :
              \E r \in FirstSeen :
                  /\ r.url = result[k].url /\ r.source = result[k].source
                  /\ r.subject = result[k].subject /\ r.sentiment = result[k].sentiment
        /\ ~upload => \A u \in Urls(sentiment) \ Urls(Stored) : u \notin Urls(result)

\* a dry run classified a url the table does not hold, and returns the
\* aggregate of what an earlier run stored
C25_Witness ==
    /\ pc = "done" /\ ~upload
    /\ Urls(sentiment) \ Urls(Stored) # {}
    /\ result # <<>>
    /\ Urls(result) = Urls(Stored)

\* the frame handed to the cleanup: pd.concat(l)
Raw == concat(l).rows

TimesIn(df, u) == Cardinality({k \in DOMAIN df : df[k].url = u})

\* the tracked subjects the k-th scraped article is tagged with
SubjectsOf(k) ==
    {s \in Range(SUBJECTS) : (title[k] @@ [subject |-> s]) \in Range(subject)}

\* the cleaned records of the run that carry the url of the k-th article
RecordsOf(k) == {q \in DOMAIN sentiment : sentiment[q].url = title[k].url}

\* every row of the k-th article was sent to the classifier in this run
AllAsked(k) ==
    /\ title[k].url \in asked
    /\ TimesIn(todo, title[k].url) = TimesIn(subject, title[k].url)

\* C26: when infer_sentiment has returned, an article tagged with two or
\* more subjects whose rows were all classified has no cleaned record, and an
\* article tagged with one subject has at most one.
C26_MultiSubjectYieldsNothing ==
    (pc = "inferred" /\ Len(calls) = 3) =>
        \A k \in DOMAIN title :
            /\ (Cardinality(SubjectsOf(k)) >= 2 /\ AllAsked(k)) => RecordsOf(k) = {}
            /\ Cardinality(SubjectsOf(k)) = 1 => Cardinality(RecordsOf(k)) <= 1

\* C26 as amended: an article tagged with two or more subjects has no cleaned
\* record when a row was parsed from the answers of at least two of its rows,
\* and at most one record otherwise; an article tagged with one subject has
\* at most one.
C26_MultiSubjectParsedTwice ==
    (pc = "inferred" /\ Len(calls) = 3) =>
        \A k \in DOMAIN title :
            /\ (Cardinality(SubjectsOf(k)) >= 2 /\ TimesIn(Raw, title[k].url) >= 2)
                   => RecordsOf(k) = {}
            /\ Cardinality(SubjectsOf(k)) >= 1 => Cardinality(RecordsOf(k)) <= 1

\* the two rows of an article tagged with both subjects were classified and
\* parsed, and the run has no record of the article
C26_Witness ==
    /\ pc = "inferred" /\ Len(calls) = 3
    /\ \E k \in DOMAIN title :
          /\ Cardinality(SubjectsOf(k)) = 2
          /\ AllAsked(k)
          /\ TimesIn(Raw, title[k].url) = 2
          /\ RecordsOf(k) = {}

(***************************************************************************)
(* The sentiment cleanup on its own: infer_sentiment at the end of its     *)
(* loop, over every frame of at most CleanMaxRows rows left to classify    *)
(* (two urls, three languages, rows may repeat a url) and every answer of  *)
(* the classifier to each row.  The storage is empty and the run is a dry  *)
(* run.                                                                    *)
(***************************************************************************)
Languages == {"en", "fr", "en-US"}

CleanRows ==
    {[Article(u, "A", <<"C", "|", "x">>) EXCEPT !.language = lang] @@ [subject |-> SUBJECTS[2]] :
        u \in {"u1", "u2"}, lang \in Languages}

CleanAnswers == Answers \cup { <<Header, Separator, <<"s", "mixed", "why">> >> }

InitClean ==
    /\ \E n \in 0..CleanMaxRows :
         \E rows \in [1..n -> CleanRows] :
           \E answers \in [1..n -> CleanAnswers] :
             /\ n > 0
             /\ todo = rows
             /\ subject = rows
             /\ title = Map(rows, LAMBDA r :
                              [url |-> r.url, source |-> r.source, title |-> r.title,
                               language |-> r.language,
                               publication_date |-> r.publication_date])
             /\ l = [k \in 1..n |-> parse_markdown_table(answers[k], rows[k])]
             /\ asked = Urls(rows)
    /\ tables = NoTables
    /\ pc = "inferring"
    /\ upload = FALSE
    /\ sentiment = <<>> /\ bias = <<>> /\ result = <<>>
    /\ calls = << [fn |-> "build_today", upload |-> FALSE, arg |-> <<>>],
                  [fn |-> "filter_subjects_of_interest", upload |-> FALSE, arg |-> title],
                  [fn |-> "infer_sentiment", upload |-> FALSE, arg |-> subject] >>
    /\ killed = NoKill
    /\ previous = MissingTable
    /\ runs = 1
    /\ op = NoOp
    /\ status = 200
    /\ unextracted = {}
    /\ ret = NoRet
    /\ cls = NoClass
    /\ ctor = NoCallers
    /\ boot = Booted
    /\ replacing = NoReplace
    /\ passed = {}

NextClean == InferFinish

SpecClean == InitClean /\ [][NextClean]_vars

\* the filters of the cleanup other than the duplicate rule, for a row whose
\* language is "en"
PassesOtherFilters(r) ==
    /\ r.url # NaN
    /\ LowerLabel(r.sentiment) \in SentimentCategories
    /\ r.language = "en"

\* C15: a url that occurs in several rows of the raw output occurs in no row
\* of the cleaned output, a url that occurs once is kept when its row passes
\* the other filters, and the cleaned output has at most one row per url.
C15_DuplicatedUrlsDropped ==
    pc = "inferred" =>
        /\ \A u \in Urls(Raw) : TimesIn(Raw, u) > 1 => u \notin Urls(sentiment)
        /\ \A k \in DOMAIN Raw :
              (TimesIn(Raw, Raw[k].url) = 1 /\ PassesOtherFilters(Raw[k])) =>
                  Raw[k].url \in Urls(sentiment)
        /\ \A j, k \in DOMAIN sentiment : sentiment[j].url = sentiment[k].url => j = k

\* two valid rows of one url with the same sentiment are both dropped while
\* the single row of another url is kept
C15_Witness ==
    /\ pc = "inferred"
    /\ Len(Raw) = 3
    /\ Raw[1].url = Raw[2].url /\ Raw[1] = Raw[2]
    /\ PassesOtherFilters(Raw[1])
    /\ Urls(sentiment) = {Raw[3].url}
    /\ Raw[3].url # Raw[1].url

\* whether a language of the model starts with "en"
StartsWithEn(lang) == lang \in {"en", "en-US"}

\* C16: a row that passes the other filters is kept exactly when its language
\* starts with "en".
C16_LanguageStartsWithEn ==
    pc = "inferred" =>
        \A k \in DOMAIN Raw :
            ( /\ TimesIn(Raw, Raw[k].url) = 1
              /\ LowerLabel(Raw[k].sentiment) \in SentimentCategories ) =>
                (Raw[k].url \in Urls(sentiment) <=> StartsWithEn(Raw[k].language))

\* the place in the raw frame of the only row with url u
PlaceOf(u) == CHOOSE k \in DOMAIN Raw : Raw[k].url = u

\* C27: the rows of the cleaned output are rows of the raw frame in the same
\* relative order, numbered without gaps; every one has a url that is not
\* missing and as sentiment the lower-cased raw sentiment, which is one of the
\* configured categories.
C27_OrderKeptLabelsLowered ==
    pc = "inferred" =>
        /\ DOMAIN sentiment = 1..Len(sentiment)
        /\ \A k \in DOMAIN sentiment :
              /\ sentiment[k].url # NaN
              /\ sentiment[k].url \in Urls(Raw)
              /\ sentiment[k].sentiment = LowerLabel(Raw[PlaceOf(sentiment[k].url)].sentiment)
              /\ sentiment[k].sentiment \in SentimentCategories
        /\ \A j, k \in DOMAIN sentiment :
              j < k => PlaceOf(sentiment[j].url) < PlaceOf(sentiment[k].url)

\* u2 came before u1 in the raw frame and both survive, one of them with a
\* capitalised raw label, while the answer of a third row gave no row
C27_Witness ==
    /\ pc = "inferred"
    /\ Len(todo) = 3
    /\ Len(sentiment) = 2
    /\ sentiment[1].url = "u2" /\ sentiment[2].url = "u1"
    /\ Raw[1].sentiment = "Positive" /\ sentiment[1].sentiment = "positive"

(***************************************************************************)
(* The subject filter on its own: filter_subjects_of_interest called in a  *)
(* dry run with every batch of at most FilterMaxBatch articles whose       *)
(* titles have at most FilterMaxTitle characters.                          *)
(***************************************************************************)
FilterTitles == SeqsUpTo({"a", "B", "c", "x"}, FilterMaxTitle) \ {<<>>}

InitFilter ==
    /\ \E n \in 0..FilterMaxBatch :
         \E titles \in [1..n -> FilterTitles] :
             title = [k \in 1..n |-> Article(UrlNames[k], "A", titles[k])]
    /\ tables = NoTables
    /\ pc = "scraped"
    /\ upload = FALSE
    /\ subject = <<>> /\ sentiment = <<>> /\ bias = <<>> /\ result = <<>>
    /\ calls = << [fn |-> "build_today", upload |-> FALSE, arg |-> <<>>] >>
    /\ todo = <<>> /\ l = <<>> /\ asked = {}
    /\ killed = NoKill
    /\ previous = MissingTable
    /\ runs = 1
    /\ op = NoOp
    /\ status = 0
    /\ unextracted = {}
    /\ ret = NoRet
    /\ cls = NoClass
    /\ ctor = NoCallers
    /\ boot = Booted
    /\ replacing = NoReplace
    /\ passed = {}

NextFilter == FilterSubjects

SpecFilter == InitFilter /\ [][NextFilter]_vars

\* the lowercased title holds one of the alias tokens of the subject
MatchesAnyAlias(t, s) ==
    \E alias \in Range(Split(s, " ")) : Contains(Lower(t), alias)

\* C17: the filter returns the row (article, subject) exactly when the
\* lowercased title of the article holds at least one alias token of the
\* subject, and every returned row has a configured subject.
C17_AnyAliasMatches ==
    pc = "filtered" =>
        /\ \A k \in DOMAIN title : \A s \in Range(SUBJECTS) :
              MatchesAnyAlias(title[k].title, s) <=>
                  (title[k] @@ [subject |-> s]) \in Range(subject)
        /\ \A k \in DOMAIN subject : subject[k].subject \in Range(SUBJECTS)

\* the last whitespace-separated alias token of a subject
LastAlias(s) == Split(s, " ")[Len(Split(s, " "))]

\* C22: the filter returns the row (article, subject) exactly when the
\* lowercased title of the article holds the last alias token of the subject;
\* a title that holds only an earlier token of the subject gets no row for it.
C22_LastAliasOnly ==
    pc = "filtered" =>
        \A k \in DOMAIN title : \A s \in Range(SUBJECTS) :
            /\ Contains(Lower(title[k].title), LastAlias(s)) <=>
                   (title[k] @@ [subject |-> s]) \in Range(subject)
            /\ (MatchesAnyAlias(title[k].title, s)
                  /\ ~Contains(Lower(title[k].title), LastAlias(s)))
                   => \A q \in DOMAIN subject :
                          ~(subject[q].url = title[k].url /\ subject[q].subject = s)

\* the title "ac" holds the first token of "a b" and not the last, and
\* holds the only token of "c": it is tagged with "c" alone
C22_Witness ==
    /\ pc = "filtered"
    /\ \E k \in DOMAIN title :
          /\ title[k].title = <<"a", "c">>
          /\ subject = << title[k] @@ [subject |-> SUBJECTS[2]] >>

(***************************************************************************)
(* get_table on its own (data/db.py): calls of get_table, with either      *)
(* value of return_if_not_exists, between table_upload calls of at most    *)
(* TableMaxBatch rows that create and fill the title table; the subject    *)
(* table never exists.                                                     *)
(***************************************************************************)
\* the flag is not looked at: a missing table gives an empty frame
get_table_lenient(T, table_name, return_if_not_exists) ==
    IF ~table_exists(T, table_name)
    THEN [raised |-> "none", df |-> <<>>]
    ELSE [raised |-> "none", df |-> get_table(T, table_name)]

\* get_table as a whole: what it raises and the frame it returns
get_table_outcome(T, table_name, return_if_not_exists) ==
    IF ~table_exists(T, table_name)
    THEN IF return_if_not_exists
         THEN [raised |-> "none", df |-> <<>>]
         ELSE [raised |-> "ValueError", df |-> <<>>]
    ELSE [raised |-> "none", df |-> get_table(T, table_name)]

GetTable(table_name, return_if_not_exists) ==
    /\ ret' = [call |-> "get_table", table_name |-> table_name,
               return_if_not_exists |-> return_if_not_exists,
               before |-> tables[table_name],
               out |-> get_table_outcome(tables, table_name, return_if_not_exists)]
    /\ UNCHANGED <<tables, pc, upload, title, subject, sentiment, bias, calls, todo, l,
                   asked, result, killed, previous, runs, op, status, unextracted,
                   cls, ctor, boot, replacing, passed>>

TableBatches == SeqsUpTo(UploadRows, TableMaxBatch)

NextTable ==
    \/ \E batch \in TableBatches : DirectUpload(batch)
    \/ \E table_name \in {"title", "subject"}, flag \in BOOLEAN : GetTable(table_name, flag)

SpecTable == Init /\ [][NextTable]_vars

\* C18: get_table on a missing table raises ValueError when
\* return_if_not_exists is false and returns an empty frame when it is true;
\* on an existing table it returns the rows of the table; no call changes the
\* storage.
C18_GetTable ==
    /\ [](ret.call = "get_table" =>
            /\ (~ret.before.exists /\ ~ret.return_if_not_exists) =>
                   ret.out.raised = "ValueError"
            /\ (~ret.before.exists /\ ret.return_if_not_exists) =>
                   (ret.out.raised = "none" /\ ret.out.df = <<>>)
            /\ ret.before.exists =>
                   (ret.out.raised = "none" /\ ret.out.df = ret.before.rows))
    /\ [][ret' # ret => tables' = tables]_vars

\* the call for the missing subject table raised while the title table holds rows
C18_Witness ==
    /\ ret.call = "get_table"
    /\ ret.table_name = "subject" /\ ~ret.return_if_not_exists
    /\ ret.out.raised = "ValueError"
    /\ Len(tables["title"].rows) = 2

(***************************************************************************)
(* The read API (api.get_articles).  A request is answered in one step     *)
(* from the inverse_bias table, which no request changes.  An optional     *)
(* query parameter is [given, value]; limit is default_limit when it is    *)
(* omitted.  Publication dates are numbers, compared as the database       *)
(* compares the stored values.  The database is PostgreSQL, which answers  *)
(* a negative LIMIT and a missing table with an error.                     *)
(***************************************************************************)
max_limit == 2
default_limit == 1

Omitted(v) == [given |-> FALSE, value |-> v]
Given(v) == [given |-> TRUE, value |-> v]

\* the truth value Python gives an Optional[str] parameter
Truthy(p) == p.given /\ Len(p.value) > 0

\* the WHERE clause built by lines 57-67
Where(rows, q_source, q_subject, q_sentiment) ==
    SelectIdx(rows, LAMBDA k :
        /\ Truthy(q_source) => rows[k].source = q_source.value
        /\ Truthy(q_subject) => rows[k].subject = q_subject.value
        /\ Truthy(q_sentiment) => rows[k].sentiment = q_sentiment.value)

\* ORDER BY publication_date DESC: every order of the rows the database may
\* return (rows with equal dates come in any order)
OrderByDateDesc(rows) ==
    LET perms == {p \in [DOMAIN rows -> DOMAIN rows] :
                     \A j, k \in DOMAIN rows : p[j] = p[k] => j = k}
        sorted == {p \in perms :
                     \A j, k \in DOMAIN rows :
                         j < k => rows[p[j]].publication_date >= rows[p[k]].publication_date}
    IN  {[k \in DOMAIN rows |-> rows[p[k]]] : p \in sorted}

\* the page taken from the start whatever the offset
PageFromStart(ordered, limit, offset) ==
    SubSeq(ordered, 1, IF limit < Len(ordered) THEN limit ELSE Len(ordered))

\* LIMIT :limit OFFSET :offset
Page(ordered, limit, offset) ==
    SubSeq(ordered, offset + 1,
           IF offset + limit < Len(ordered) THEN offset + limit ELSE Len(ordered))

\* the columns selected by lines 50-54 and built into a NewsArticle
NewsArticle(r) ==
    [source |-> r.source, subject |-> r.subject, url |-> r.url, title |-> r.title,
     publication_date |-> r.publication_date, sentiment |-> r.sentiment,
     explanation |-> r.explanation, bias |-> r.bias,
     num_negative |-> r.negative, num_positive |-> r.positive]

\* the responses get_articles can give: validation of the Query parameters
\* (422), then the query
get_articles(T, limit, offset, q_source, q_subject, q_sentiment) ==
    IF limit > max_limit \/ offset < 0
    THEN {[status_code |-> 422, articles |-> <<>>]}
    ELSE IF ~table_exists(T, "inverse_bias") \/ limit < 0
    THEN {[status_code |-> 500, articles |-> <<>>]}
    ELSE {[status_code |-> 200,
           articles |-> Map(Page(ordered, limit, offset), NewsArticle)] :
             ordered \in OrderByDateDesc(
                             Where(get_table(T, "inverse_bias"), q_source, q_subject, q_sentiment))}

\* one request in a behaviour: a request only reads the table, so a later
\* request is answered as in the behaviour that begins with it
GetArticles(limit, offset, q_source, q_subject, q_sentiment) ==
    /\ ret = NoRet
    /\ \E response \in get_articles(tables, limit, offset, q_source, q_subject, q_sentiment) :
          ret' = [call |-> "get_articles", limit |-> limit, offset |-> offset,
                  source |-> q_source, subject |-> q_subject, sentiment |-> q_sentiment,
                  response |-> response]
    /\ UNCHANGED <<tables, pc, upload, title, subject, sentiment, bias, calls, todo, l,
                   asked, result, killed, previous, runs, op, status, unextracted,
                   cls, ctor, boot, replacing, passed>>

\* the rows of the inverse_bias table the requests are answered from:
\* distinct urls, two sources, two dates, one subject, one sentiment
ApiTable(a) ==
    [k \in DOMAIN a |->
        [url |-> UrlNames[k], source |-> a[k][1], subject |-> SUBJECTS[2],
         sentiment |-> "positive", publication_date |-> a[k][2],
         title |-> <<"C">>, explanation |-> "why", bias |-> NA,
         inverse_bias |-> NA, negative |-> 1, positive |-> 1]]

InitApi ==
    /\ \/ tables = NoTables
       \/ \E n \in 0..ApiMaxRows :
            \E a \in [1..n -> {"A", "B"} \X {1, 2}] :
                tables = [NoTables EXCEPT
                             !["inverse_bias"] = [exists |-> TRUE, rows |-> ApiTable(a)]]
    /\ pc = "idle"
    /\ upload = FALSE
    /\ title = <<>> /\ subject = <<>> /\ sentiment = <<>> /\ bias = <<>>
    /\ result = <<>>
    /\ calls = <<>> /\ todo = <<>> /\ l = <<>> /\ asked = {}
    /\ killed = NoKill
    /\ previous = MissingTable
    /\ runs = 0
    /\ op = NoOp
    /\ status = 0
    /\ unextracted = {}
    /\ ret = NoRet
    /\ cls = NoClass
    /\ ctor = NoCallers
    /\ boot = Booted
    /\ replacing = NoReplace
    /\ passed = {}

\* the values of an optional text parameter: omitted, empty, or one of values
Optional(values, empty) == {Omitted(empty), Given(empty)} \cup {Given(v) : v \in values}

NextApi ==
    \E limit \in {default_limit} \cup (-1..(max_limit + 1)), offset \in -1..ApiMaxOffset,
       q_source \in Optional({"A"}, ""),
       q_subject \in Optional({SUBJECTS[1]}, <<>>),
       q_sentiment \in Optional({"negative"}, "") :
        GetArticles(limit, offset, q_source, q_subject, q_sentiment)

SpecApi == InitApi /\ [][NextApi]_vars

\* the request and the response of the last call, and the table it read
Req == ret
Resp == ret.response.articles
ApiRows == tables["inverse_bias"].rows

\* the rows that equal every filter value the request supplies
EqualSupplied(rows, q_source, q_subject, q_sentiment) ==
    SelectIdx(rows, LAMBDA k :
        /\ q_source.given => rows[k].source = q_source.value
        /\ q_subject.given => rows[k].subject = q_subject.value
        /\ q_sentiment.given => rows[k].sentiment = q_sentiment.value)

\* the rows that equal every non-empty filter value the request supplies
EqualNonEmpty(rows, q_source, q_subject, q_sentiment) ==
    SelectIdx(rows, LAMBDA k :
        /\ (q_source.given /\ q_source.value # "") => rows[k].source = q_source.value
        /\ (q_subject.given /\ q_subject.value # <<>>) => rows[k].subject = q_subject.value
        /\ (q_sentiment.given /\ q_sentiment.value # "") =>
               rows[k].sentiment = q_sentiment.value)

\* articles is the page (limit, offset) of the rows of matching in descending
\* order of publication_date, for some order of the rows with equal dates
IsPageOf(articles, matching, limit, offset) ==
    LET n == Len(matching)
        size == IF n - offset < 0 THEN 0 ELSE IF n - offset < limit THEN n - offset ELSE limit
        later(d) == Cardinality({k \in DOMAIN matching : matching[k].publication_date > d})
        notEarlier(d) ==
            Cardinality({k \in DOMAIN matching : matching[k].publication_date >= d})
    IN  /\ Len(articles) = size
        /\ Len(articles) <= limit
        /\ \A j \in DOMAIN articles :
              /\ \E k \in DOMAIN matching : articles[j] = NewsArticle(matching[k])
              /\ later(articles[j].publication_date) <= offset + j - 1
              /\ notEarlier(articles[j].publication_date) >= offset + j
        /\ \A i, j \in DOMAIN articles :
              /\ i < j => articles[i].publication_date >= articles[j].publication_date
              /\ articles[i].url = articles[j].url => i = j

Rejected == Req.limit > max_limit \/ Req.offset < 0

\* C19 as it is stated: a request is rejected exactly when its limit is above
\* the maximum or its offset is negative, and an accepted request that is
\* answered returns the page of the rows that equal every supplied filter
\* value.
C19_ArticlesPage ==
    Req.call = "get_articles" =>
        /\ Rejected <=> Req.response.status_code = 422
        /\ Req.response.status_code = 200 =>
              IsPageOf(Resp, EqualSupplied(ApiRows, Req.source, Req.subject, Req.sentiment),
                       Req.limit, Req.offset)

\* C19 amended: the rows of the page equal every supplied filter value that is
\* not the empty string; an omitted or empty filter restricts nothing.
C19_ArticlesPageNonEmptyFilters ==
    Req.call = "get_articles" =>
        /\ Rejected <=> Req.response.status_code = 422
        /\ Req.response.status_code = 200 =>
              IsPageOf(Resp, EqualNonEmpty(ApiRows, Req.source, Req.subject, Req.sentiment),
                       Req.limit, Req.offset)

\* with source A, offset 1 and limit 1 the later of two matching rows is
\* skipped and the earlier one returned, a row of source B being left out
C19_Witness ==
    /\ Req.call = "get_articles"
    /\ Req.response.status_code = 200
    /\ Req.source = Given("A") /\ Req.offset = 1 /\ Req.limit = 1
    /\ Len(ApiRows) = 3
    /\ Len(Resp) = 1
    /\ \E k \in DOMAIN ApiRows :
          ApiRows[k].source = "A" /\ ApiRows[k].publication_date > Resp[1].publication_date
    /\ \E k \in DOMAIN ApiRows : ApiRows[k].source = "B"

(***************************************************************************)
(* The storage engine handle (db.InverseBiasEngine).  cls holds the class  *)
(* attributes _instance and _engine (0 is None; objects and engines are    *)
(* numbered as they are made), the number of objects allocated, of         *)
(* create_engine calls and of constructions begun, and, as history, the    *)
(* set of instances the constructions returned.  A caller goes through     *)
(* __new__ line by line.  Here the constructions are sequential: one       *)
(* begins when no other is under way.                                      *)
(***************************************************************************)
Quiet == \A c \in Callers : ctor[c].pc = "idle"

EngineUnchanged ==
    UNCHANGED <<tables, pc, upload, title, subject, sentiment, bias, calls, todo, l,
                asked, result, killed, previous, runs, op, status, unextracted, ret,
                boot, replacing, passed>>

\* the test of line 19 left out: every construction allocates
NewBeginUntested(c) ==
    /\ ctor[c].pc = "idle"
    /\ cls.calls < MaxConstructions
    /\ cls' = [cls EXCEPT !.calls = @ + 1]
    /\ ctor' = [ctor EXCEPT ![c].pc = "allocate"]
    /\ EngineUnchanged

\* InverseBiasEngine() is called; line 19: if cls._instance is None
NewBegin(c) ==
    /\ ctor[c].pc = "idle"
    /\ cls.calls < MaxConstructions
    /\ cls' = [cls EXCEPT !.calls = @ + 1]
    /\ ctor' = [ctor EXCEPT ![c].pc = IF cls.instance = 0 THEN "allocate" ELSE "return"]
    /\ EngineUnchanged

\* line 20: cls._instance = super().__new__(cls)
NewAllocate(c) ==
    /\ ctor[c].pc = "allocate"
    /\ cls' = [cls EXCEPT !.objects = @ + 1, !.instance = cls.objects + 1]
    /\ ctor' = [ctor EXCEPT ![c].pc = "create_engine"]
    /\ EngineUnchanged

\* line 21 and lines 24-33: cls._engine = create_engine(...)
NewCreateEngine(c) ==
    /\ ctor[c].pc = "create_engine"
    /\ cls' = [cls EXCEPT !.engines = @ + 1, !.engine = cls.engines + 1]
    /\ ctor' = [ctor EXCEPT ![c].pc = "return"]
    /\ EngineUnchanged

\* line 22: return cls._instance
NewReturn(c) ==
    /\ ctor[c].pc = "return"
    /\ cls' = [cls EXCEPT !.returned = @ \cup {cls.instance}]
    /\ ctor' = [ctor EXCEPT ![c].pc = "engine", ![c].got = cls.instance]
    /\ EngineUnchanged

\* the caller reads the engine property of the instance (lines 35-38)
ReadEngine(c) ==
    /\ ctor[c].pc = "engine"
    /\ ctor' = [ctor EXCEPT ![c].pc = "idle", ![c].engine = cls.engine]
    /\ UNCHANGED cls
    /\ EngineUnchanged

NextEngine ==
    \E c \in Callers :
        \/ Quiet /\ NewBegin(c)
        \/ NewAllocate(c)
        \/ NewCreateEngine(c)
        \/ NewReturn(c)
        \/ ReadEngine(c)

SpecEngine == Init /\ [][NextEngine]_vars

\* C20: all constructions return one and the same instance, and
\* create_engine is called once, in the first construction, and never again.
C20_OneInstanceOneEngine ==
    /\ Cardinality(cls.returned) <= 1
    /\ \A c \in Callers : ctor[c].got # 0 => ctor[c].got \in cls.returned
    /\ cls.engines <= 1
    /\ cls.returned # {} => (cls.engines = 1 /\ cls.engine = 1 /\ cls.objects = 1)
    /\ \A c \in Callers :
          ctor[c].pc \in {"allocate", "create_engine"} => cls.calls = 1
    /\ \A c \in Callers : ctor[c].engine \in {0, 1}

\* three constructions by different callers have returned
C20_Witness ==
    /\ cls.calls = 3
    /\ \A c \in Callers : ctor[c].got = 1 /\ ctor[c].engine = 1
    /\ cls.engines = 1

(***************************************************************************)
(* The start of the process (inversebias/config/settings.py).  Importing   *)
(* the settings module reads config.yaml; pipeline.py imports ml.py and    *)
(* scrape.py, which import inversebias.config, so a stage can be called    *)
(* only once the import of the settings module has gone through.  The      *)
(* file is absent, holds a mapping (valid), holds nothing (yaml.safe_load  *)
(* returns None) or is not YAML at all.  The process runs today_pipeline   *)
(* once (pipeline.py, lines 17-20).                                        *)
(***************************************************************************)
ConfigFiles == {"absent", "valid", "empty", "malformed"}

NotStarted == [file |-> "valid", state |-> "importing", raised |-> "none", names |-> {}]

StartupUnchanged ==
    UNCHANGED <<tables, pc, upload, title, subject, sentiment, bias, calls, todo, l,
                asked, result, killed, previous, runs, op, status, unextracted, ret,
                cls, ctor, replacing, passed>>

\* an absent file is read as an empty configuration
LoadYamlConfigDefaulting ==
    /\ boot.state = "importing"
    /\ boot' = IF boot.file = "malformed"
               THEN [boot EXCEPT !.state = "failed", !.raised = "YAMLError"]
               ELSE [boot EXCEPT !.state = "loaded", !.names = {"_yaml_config"}]
    /\ StartupUnchanged

\* _yaml_config = load_yaml_config() (line 33, lines 19-29)
LoadYamlConfig ==
    /\ boot.state = "importing"
    /\ boot' = CASE boot.file = "absent" ->
                      [boot EXCEPT !.state = "failed", !.raised = "FileNotFoundError"]
                 [] boot.file = "malformed" ->
                      [boot EXCEPT !.state = "failed", !.raised = "YAMLError"]
                 [] OTHER ->
                      [boot EXCEPT !.state = "loaded", !.names = {"_yaml_config"}]
    /\ StartupUnchanged

\* the rest of the module (lines 36-141): the settings classes read
\* _yaml_config.get(...), then settings, SOURCE_TO_URL, SUBJECTS are made
CreateSettings ==
    /\ boot.state = "loaded"
    /\ boot' = IF boot.file = "empty"
               THEN [boot EXCEPT !.state = "failed", !.raised = "AttributeError"]
               ELSE [boot EXCEPT !.state = "ready", !.names = SettingsNames]
    /\ StartupUnchanged

\* pipeline.py can be imported, so that today_pipeline can be called
Imported == boot.state = "ready" /\ {"settings", "SOURCE_TO_URL", "SUBJECTS"} \subseteq boot.names

InitStartup ==
    /\ \E f \in ConfigFiles : boot = [NotStarted EXCEPT !.file = f]
    /\ tables = NoTables
    /\ pc = "idle"
    /\ upload = FALSE
    /\ title = <<>> /\ subject = <<>> /\ sentiment = <<>> /\ bias = <<>>
    /\ result = <<>>
    /\ calls = <<>> /\ todo = <<>> /\ l = <<>> /\ asked = {}
    /\ killed = NoKill
    /\ previous = MissingTable
    /\ runs = 0
    /\ op = NoOp
    /\ status = 0
    /\ unextracted = {}
    /\ ret = NoRet
    /\ cls = NoClass
    /\ ctor = NoCallers
    /\ replacing = NoReplace
    /\ passed = {}

NextStartup ==
    \/ LoadYamlConfig
    \/ CreateSettings
    \/ Imported /\ runs = 0 /\ \E batch \in Batches, u \in BOOLEAN : BuildToday(batch, u)
    \/ Imported /\ FilterSubjects
    \/ Imported /\ InferStart
    \/ Imported /\ \E answer \in Answers : InferAsk(answer)
    \/ Imported /\ InferAskFails
    \/ Imported /\ InferFinish
    \/ Imported /\ BuildInverseBias

SpecStartup == InitStartup /\ [][NextStartup]_vars

\* C21: when config.yaml is absent the import of the settings module ends
\* with FileNotFoundError raised by load_yaml_config: none of the module's
\* names (settings, SUBJECTS, SOURCE_TO_URL) is ever defined, and no
\* pipeline stage is ever called.
C21_NoConfigNoStart ==
    /\ [](boot.file = "absent" =>
            /\ boot.state \in {"importing", "failed"}
            /\ boot.state = "failed" => boot.raised = "FileNotFoundError"
            /\ boot.names = {}
            /\ pc = "idle" /\ calls = <<>> /\ runs = 0 /\ tables = NoTables)
    /\ [][(boot.file = "absent" /\ boot.state = "importing")
             => (boot'.state = "failed" /\ boot'.raised = "FileNotFoundError")]_vars

\* the import has been tried without the file
C21_Witness ==
    /\ boot.file = "absent"
    /\ boot.state = "failed"
    /\ boot.raised = "FileNotFoundError"

(***************************************************************************)
(* The title rule of the cleanup on its own: infer_sentiment ends on one   *)
(* classified row whose raw title is any string of at most TitleMaxLen     *)
(* characters over a letter, the blank, "|" and the New York Times suffix, *)
(* scraped from nytimes or from another source.                            *)
(***************************************************************************)
TitleChars == {"x", " ", "|", NYT}

TitleSources == {"A", "nytimes"}

TitleRows ==
    {Article("u1", src, t) @@ [subject |-> SUBJECTS[2]] :
        src \in TitleSources, t \in SeqsUpTo(TitleChars, TitleMaxLen)}

InitTitle ==
    /\ \E row \in TitleRows :
          /\ todo = <<row>>
          /\ subject = <<row>>
          /\ title = << [url |-> row.url, source |-> row.source, title |-> row.title,
                         language |-> row.language,
                         publication_date |-> row.publication_date] >>
          /\ l = << parse_markdown_table(
                        <<Header, Separator, <<"s", "negative", "why">> >>, row) >>
          /\ asked = {row.url}
    /\ calls = << [fn |-> "build_today", upload |-> FALSE, arg |-> <<>>],
                  [fn |-> "filter_subjects_of_interest", upload |-> FALSE, arg |-> title],
                  [fn |-> "infer_sentiment", upload |-> FALSE, arg |-> subject] >>
    /\ tables = NoTables
    /\ pc = "inferring"
    /\ upload = FALSE
    /\ sentiment = <<>> /\ bias = <<>> /\ result = <<>>
    /\ killed = NoKill
    /\ previous = MissingTable
    /\ runs = 1
    /\ op = NoOp
    /\ status = 200
    /\ unextracted = {}
    /\ ret = NoRet
    /\ cls = NoClass
    /\ ctor = NoCallers
    /\ boot = Booted
    /\ replacing = NoReplace
    /\ passed = {}

NextTitle == InferFinish

SpecTitle == InitTitle /\ [][NextTitle]_vars

\* t is the first of the segments of maximal length of raw split at "|"
FirstLongestSegment(t, raw) ==
    LET segments == Split(raw, "|")
    IN  \E k \in DOMAIN segments :
            /\ t = segments[k]
            /\ \A j \in DOMAIN segments : Length(segments[j]) <= Length(t)
            /\ \A j \in 1..(k-1) : Length(segments[j]) < Length(t)

\* t is s without its leading and trailing blanks
Trimmed(t, s) ==
    /\ \E a, b \in 0..Len(s) :
          /\ a + b + Len(t) = Len(s)
          /\ t = SubSeq(s, a + 1, Len(s) - b)
          /\ \A k \in (1..a) \cup ((Len(s) - b + 1)..Len(s)) : s[k] = " "
    /\ t # <<>> => (t[1] # " " /\ t[Len(t)] # " ")

\* t is what comes before the first NYT of s (all of s when it has none)
UpToSuffix(t, s) ==
    /\ Len(t) <= Len(s)
    /\ t = SubSeq(s, 1, Len(t))
    /\ \A k \in 1..Len(t) : t[k] # NYT
    /\ Len(t) < Len(s) => s[Len(t) + 1] = NYT

\* C28: the title of every cleaned row is the first longest "|"-segment of
\* the raw title, trimmed (for a raw title without "|": the raw title,
\* trimmed).
C28_LongestSegmentTrimmed ==
    pc = "inferred" =>
        \A k \in DOMAIN sentiment :
            \E seg \in Range(Split(todo[1].title, "|")) :
                /\ FirstLongestSegment(seg, todo[1].title)
                /\ Trimmed(sentiment[k].title, seg)

\* C28 as amended: the same for a row of any source but nytimes; for a row of
\* nytimes the title is what comes before " - The New York Times" in the
\* first longest segment, trimmed.
C28_LongestSegmentSuffixCut ==
    pc = "inferred" =>
        \A k \in DOMAIN sentiment :
            \E seg \in Range(Split(todo[1].title, "|")) :
                /\ FirstLongestSegment(seg, todo[1].title)
                /\ \E n \in 0..Len(seg) :
                      /\ IF sentiment[k].source = "nytimes"
                         THEN UpToSuffix(SubSeq(seg, 1, n), seg) ELSE n = Len(seg)
                      /\ Trimmed(sentiment[k].title, SubSeq(seg, 1, n))

\* of the segments " " and "x", of the same length, the first is taken and
\* trimmed
C28_Witness ==
    /\ pc = "inferred"
    /\ Len(sentiment) = 1
    /\ todo[1].title = <<" ", "|", "x">>
    /\ sentiment[1].title = <<>>

(***************************************************************************)
(* sql_replace_df statement by statement (db.py, lines 127-165), next to a *)
(* request GET /articles served by another connection.  tables is what is  *)
(* committed, which is all another connection sees; what to_sql writes on  *)
(* the connection of sql_replace_df is committed by the conn.commit() that *)
(* follows ALTER TABLE.  to_sql may raise: the first time the except       *)
(* branch takes over, the second time the exception leaves the function.   *)
(***************************************************************************)
ReplaceUnchanged ==
    UNCHANGED <<pc, upload, title, subject, sentiment, bias, calls, todo, l, asked,
                result, killed, previous, runs, op, status, unextracted, ret, cls, ctor,
                boot, passed>>

\* lines 130-131: DROP TABLE IF EXISTS and commit
ReplaceDrop(df) ==
    /\ replacing.pc = "idle"
    /\ replacing' = [pc |-> "dropped", df |-> df, before |-> tables["inverse_bias"]]
    /\ tables' = [tables EXCEPT !["inverse_bias"] = MissingTable]
    /\ ReplaceUnchanged

\* lines 135-141: to_sql with the column types, on the open transaction
ReplaceToSql ==
    /\ replacing.pc = "dropped"
    /\ \E next \in {"written", "failed"} : replacing' = [replacing EXCEPT !.pc = next]
    /\ UNCHANGED tables
    /\ ReplaceUnchanged

\* lines 144-147 and 161-165: ADD PRIMARY KEY and commit
ReplaceAddKey ==
    /\ replacing.pc \in {"written", "written again"}
    /\ replacing' = [replacing EXCEPT !.pc = "done"]
    /\ tables' = sql_replace_df(tables, replacing.df, "inverse_bias")
    /\ ReplaceUnchanged

\* lines 148-151: the except branch drops the table and commits
ReplaceFallbackDrop ==
    /\ replacing.pc = "failed"
    /\ replacing' = [replacing EXCEPT !.pc = "dropped again"]
    /\ tables' = [tables EXCEPT !["inverse_bias"] = MissingTable]
    /\ ReplaceUnchanged

\* lines 153-159: to_sql without the column types
ReplaceFallbackToSql ==
    /\ replacing.pc = "dropped again"
    /\ \E next \in {"written again", "raised"} : replacing' = [replacing EXCEPT !.pc = next]
    /\ UNCHANGED tables
    /\ ReplaceUnchanged

\* the frames build_inverse_bias hands over, and the tables found in place
ReplaceFrames ==
    UNION {{ApiTable(a) : a \in [1..n -> {"A", "B"} \X {1, 2}]} : n \in 0..ReplaceMaxRows}

InitReplace ==
    /\ \/ tables = NoTables
       \/ \E rows \in ReplaceFrames :
             tables = [NoTables EXCEPT !["inverse_bias"] = [exists |-> TRUE, rows |-> rows]]
    /\ pc = "idle"
    /\ upload = FALSE
    /\ title = <<>> /\ subject = <<>> /\ sentiment = <<>> /\ bias = <<>>
    /\ result = <<>>
    /\ calls = <<>> /\ todo = <<>> /\ l = <<>> /\ asked = {}
    /\ killed = NoKill
    /\ previous = MissingTable
    /\ runs = 0
    /\ op = NoOp
    /\ status = 0
    /\ unextracted = {}
    /\ ret = NoRet
    /\ cls = NoClass
    /\ ctor = NoCallers
    /\ boot = Booted
    /\ replacing = NoReplace
    /\ passed = {}

\* the request of the reader: the largest page from the start, no filter
ReadArticles == GetArticles(max_limit, 0, Omitted(""), Omitted(<<>>), Omitted(""))

NextReplace ==
    \/ \E df \in ReplaceFrames : ReplaceDrop(df)
    \/ ReplaceToSql
    \/ ReplaceAddKey
    \/ ReplaceFallbackDrop
    \/ ReplaceFallbackToSql
    \/ ReadArticles

SpecReplace == InitReplace /\ [][NextReplace]_vars

\* sql_replace_df has begun and has neither returned nor raised
ReplaceUnderWay == replacing.pc \notin {"idle", "done", "raised"}

\* C29: a request GET /articles answered while sql_replace_df is under way
\* on an existing inverse_bias table finds the table, and finds rows in it
\* when the replacing frame has rows; and when the call is over, a failure
\* of to_sql included, the table exists and holds rows when the frame has
\* rows.
C29_ReaderSeesTable ==
    /\ [][(ReplaceUnderWay /\ replacing.before.exists /\ ret = NoRet /\ ret' # NoRet) =>
             /\ ret'.response.status_code = 200
             /\ replacing.df # <<>> => ret'.response.articles # <<>>]_vars
    /\ [](replacing.pc \in {"done", "raised"} =>
             /\ table_exists(tables, "inverse_bias")
             /\ replacing.df # <<>> => tables["inverse_bias"].rows # <<>>)

(***************************************************************************)
(* InverseBiasEngine() called by threads that run at once (the request     *)
(* handlers of the API, api.py line 71): the statements of __new__ of      *)
(* different callers interleave freely, no lock being taken.               *)
(***************************************************************************)
NextEngineThreads ==
    \E c \in Callers :
        \/ NewBegin(c)
        \/ NewAllocate(c)
        \/ NewCreateEngine(c)
        \/ NewReturn(c)
        \/ ReadEngine(c)

SpecEngineThreads == Init /\ [][NextEngineThreads]_vars

\* the caller has its instance and has read the engine of it
HasEngine(c) == ctor[c].got # 0 /\ ctor[c].pc = "idle"

\* C30: however the constructions of several threads interleave,
\* create_engine is called at most once, and the callers that have read the
\* engine got one instance and one engine, which is the engine created.
C30_OneEngineForAllThreads ==
    /\ cls.engines <= 1
    /\ cls.objects <= 1
    /\ \A c, d \in Callers :
          (HasEngine(c) /\ HasEngine(d)) =>
              (ctor[c].got = ctor[d].got /\ ctor[c].engine = ctor[d].engine)
    /\ \A c \in Callers : HasEngine(c) => ctor[c].engine = 1

====
